---- MODULE Spec2Model ----
(***************************************************************************)
(* A model of the client side of the Pathfinder protocol engine            *)
(* (paf/client.py): the per-transaction state machine, the connection      *)
(* engine (outgoing queue, transaction registry, bounded process rounds,   *)
(* handshake) and the synchronous call adapters.                           *)
(*                                                                         *)
(* The transport (paf.xcm) and the server are the environment: every send  *)
(* attempt succeeds, would-blocks or fails, every receive attempt          *)
(* would-blocks, fails or delivers a message the server chose.             *)
(***************************************************************************)
EXTENDS Integers, Sequences, FiniteSets, TLC

\* ------------------------------------------------------------------ bounds
\* Number of requests issued on the connection, the handshake included.
MaxTa == 2
\* Number of messages the server sends on the connection.
MaxIn == 3
\* Depth of the outgoing queue and of the pending inbound messages when a
\* single process() round is examined.
DeepQueue == 130
DeepIn == 130

\* Number of messages the server sends while a notification-collecting call
\* is examined.
MaxNotify == 5

\* Number of handlers that may be running a nested synchronous call at once,
\* and number of messages the server sends while such handlers are examined.
MaxDepth == 1
MaxReentrantIn == 4

\* ------------------------------------------------------- program constants
MAX_MSGS_PER_ROUND == 128

\* proto.VERSION, the protocol version the client requires.
VERSION == 2

\* Python's None, for integer-valued and for string-valued places.
None == -1
NoneStr == "None"

\* EventType
ACCEPT == "ACCEPT"
NOTIFY == "NOTIFY"
COMPLETE == "COMPLETE"
FAIL == "FAIL"
EventType == {ACCEPT, NOTIFY, COMPLETE, FAIL}

\* TransactionState
IDLE == "IDLE"
REQUESTING == "REQUESTING"
ACCEPTED == "ACCEPTED"
TERMINATED == "TERMINATED"

\* proto.InteractionType
SINGLE_RESPONSE == "SINGLE_RESPONSE"
MULTI_RESPONSE == "MULTI_RESPONSE"

\* proto.MSG_TYPE_*: the message kinds a server sends carry the names of the
\* events they produce.
MSG_TYPE_REQUEST == "request"
MsgTypes == EventType

\* xcm readiness conditions
SO_RECEIVABLE == "SO_RECEIVABLE"
SO_SENDABLE == "SO_SENDABLE"

\* ------------------------------------------------------- schema (paf.proto)
\* The commands of the operations the model issues.
Cmds == {"hello", "publish", "ping", "subscribe", "services"}

\* The interaction pattern of a command.
ia_type(cmd) ==
    IF cmd \in {"subscribe", "services"} THEN MULTI_RESPONSE ELSE SINGLE_RESPONSE

\* The fields a message may carry besides ta-cmd, ta-id and msg-type.  A
\* message is a function from these names to a value, None meaning absent.
FieldNames == {"proto-version", "service-id", "fail-reason", "bogus"}

\* Mandatory fields of a message kind of a command, in order.
fields_of(cmd, msg_type) ==
    IF msg_type = COMPLETE /\ cmd = "hello" THEN <<"proto-version">>
    ELSE IF msg_type = NOTIFY /\ ia_type(cmd) = MULTI_RESPONSE THEN <<"service-id">>
    ELSE <<>>

\* Optional fields of a message kind of a command.
opt_fields_of(cmd, msg_type) ==
    IF msg_type = FAIL THEN {"fail-reason"} ELSE {}

\* Field.python_name(): the keyword an optional field is handed over under.
python_name(name) ==
    IF name = "fail-reason" THEN "fail_reason" ELSE name

\* ------------------------------------------------------------ the operations
\* The adapter class issue_request is given by each operation.
call_cls_of(cmd) ==
    CASE cmd = "hello" -> "CompleteCall"
      [] cmd = "publish" -> "Call"
      [] cmd = "ping" -> "LatencyCall"
      [] cmd = "services" -> "NotifyCall"
      [] OTHER -> NoneStr

\* Operations that can be issued without a callback (subscribe cannot).
SyncCmds == {c \in Cmds : call_cls_of(c) # NoneStr}

\* The operation the application issues with a callback of its own.
AsyncCmds == {"subscribe"}

VARIABLES
    ready_cb,        \* Client.ready_cb: TRUE when a readiness callback was supplied
    ta_id,           \* Client.ta_id: the next transaction id
    out_wire_msgs,   \* Client.out_wire_msgs: the outgoing queue
    transactions,    \* Client.transactions: ta_id -> Transaction
    proto_version,   \* Client.proto_version
    condition,       \* the readiness interest last given to conn_sock.update
    closed,          \* conn_sock.close() was called
    calls,           \* the adapters still referenced, by the id they were issued for
    waiting,         \* the id of the adapter whose get() the thread is in
    pc,              \* where the calling thread is
    round,           \* the process() round in progress: loop and index
    raised,          \* the exception the last step ended its operation with
    returned,        \* what get() returned in the last step
    called,          \* the handler call made in the last step, if any
    issued,          \* history: the ids async_request returned, in order
    sent,            \* history: the ids of the messages conn_sock.send took, in order
    terminated,      \* history: ids of transactions whose state became TERMINATED
    ready_calls,     \* history: number of ready_cb() calls
    send_failed,     \* history: conn_sock.send raised an error other than EAGAIN
    in_wire_msg,     \* what conn_sock.receive answered in the last step, if called
    send_result,     \* what conn_sock.send answered in the last step, if called
    notified,        \* history: the NOTIFY contents dispatched to the call in progress
    finished,        \* history: ids whose handler was handed COMPLETE or FAIL
    frames,          \* the try_receive calls whose handler is running a nested call
    budget           \* number of messages the server may still send

vars == <<ready_cb, ta_id, out_wire_msgs, transactions, proto_version, condition,
          closed, calls, waiting, pc, round, raised, returned, called, issued,
          sent, terminated, ready_calls, send_failed, in_wire_msg, send_result,
          notified, finished, frames, budget>>

conn_vars == <<ta_id, out_wire_msgs, transactions, proto_version, condition, closed>>
hist_vars == <<issued, sent, terminated, ready_calls, send_failed, finished>>

\* ------------------------------------------------------------------ errors
NoError == [exc |-> "none", msg |-> ""]
Error(exc, msg) == [exc |-> exc, msg |-> msg]

\* No process() round in progress.
NoRound == [loop |-> "none", i |-> 0]

\* The empty dict.
EmptyDict == [k \in {} |-> 0]

\* What get() returned: nothing yet.
NoReturn == [cls |-> NoneStr, latency |-> None, notifications |-> <<>>,
             complete |-> <<>>]

Range(s) == {s[k] : k \in 1..Len(s)}

\* -------------------------------------------------------------- Transaction
\* A transaction that takes a fixed id instead of the one allocated for it.
Transaction_fixed_id(ta_type, id, response_cb) ==
    [ta_id |-> 0, ta_type |-> ta_type, state |-> REQUESTING, cb |-> response_cb]

\* Transaction.__init__ followed by produce_request: the transaction object
\* after the request was produced.
Transaction(ta_type, id, response_cb) ==
    [ta_id |-> id, ta_type |-> ta_type, state |-> REQUESTING, cb |-> response_cb]

\* The request message produce_request returns.
produce_request(ta_type, id) ==
    [ta_cmd |-> ta_type, ta_id |-> id, msg_type |-> MSG_TYPE_REQUEST]

\* The branch of consume_message that decides the event and the next state
\* from the message kind, the state and the interaction pattern.
consume_event(t, msg_type) ==
    IF msg_type = ACCEPT /\ t.state = REQUESTING
       /\ ia_type(t.ta_type) = MULTI_RESPONSE
    THEN [event |-> ACCEPT, state |-> ACCEPTED]
    ELSE IF msg_type = NOTIFY /\ t.state = ACCEPTED
    THEN [event |-> NOTIFY, state |-> t.state]
    ELSE IF msg_type = COMPLETE
            /\ \/ t.state = REQUESTING /\ ia_type(t.ta_type) = SINGLE_RESPONSE
               \/ t.state = ACCEPTED /\ ia_type(t.ta_type) = MULTI_RESPONSE
    THEN [event |-> COMPLETE, state |-> TERMINATED]
    ELSE IF msg_type = FAIL
    THEN [event |-> FAIL, state |-> TERMINATED]
    ELSE [event |-> NoneStr, state |-> t.state]

\* A consume_message without the check for leftover fields.
consume_message_no_leftover_check(t, in_msg) ==
    LET ev == consume_event(t, in_msg.msg_type)
        fields == fields_of(t.ta_type, in_msg.msg_type)
        opt_fields == opt_fields_of(t.ta_type, in_msg.msg_type)
        present == {n \in FieldNames : in_msg.f[n] # None}
        opt_present == present \cap opt_fields
        nothing == [state |-> t.state, exc |-> NoError, event |-> NoneStr,
                    args |-> <<>>, optargs |-> {}]
    IN  IF in_msg.ta_cmd # t.ta_type
        THEN [nothing EXCEPT !.exc = Error("ProtocolError", "unexpected command")]
        ELSE IF ev.event = NoneStr
        THEN [nothing EXCEPT !.exc = Error("ProtocolError", "invalid message type")]
        ELSE IF ~(Range(fields) \subseteq present)
        THEN [nothing EXCEPT !.state = ev.state,
                             !.exc = Error("ProtocolError", "missing field")]
        ELSE [state |-> ev.state, exc |-> NoError, event |-> ev.event,
              args |-> [k \in 1..Len(fields) |-> in_msg.f[fields[k]]],
              optargs |-> {<<python_name(n), in_msg.f[n]>> : n \in opt_present}]

\* consume_message up to the handler call: the state the transaction is left
\* in, the error raised (if any) and the event and arguments for the handler.
\* The state is assigned before the fields are pulled and before the check
\* for leftover fields.
consume_message(t, in_msg) ==
    LET ev == consume_event(t, in_msg.msg_type)
        fields == fields_of(t.ta_type, in_msg.msg_type)
        opt_fields == opt_fields_of(t.ta_type, in_msg.msg_type)
        present == {n \in FieldNames : in_msg.f[n] # None}
        opt_present == present \cap opt_fields
        leftover == present \ (Range(fields) \cup opt_fields)
        nothing == [state |-> t.state, exc |-> NoError, event |-> NoneStr,
                    args |-> <<>>, optargs |-> {}]
    IN  IF in_msg.ta_cmd # t.ta_type
        THEN [nothing EXCEPT !.exc = Error("ProtocolError", "unexpected command")]
        ELSE IF ev.event = NoneStr
        THEN [nothing EXCEPT !.exc = Error("ProtocolError", "invalid message type")]
        ELSE IF ~(Range(fields) \subseteq present)
        THEN [nothing EXCEPT !.state = ev.state,
                             !.exc = Error("ProtocolError", "missing field")]
        ELSE IF leftover # {}
        THEN [nothing EXCEPT !.state = ev.state,
                             !.exc = Error("ProtocolError", "unknown fields")]
        ELSE [state |-> ev.state, exc |-> NoError, event |-> ev.event,
              args |-> [k \in 1..Len(fields) |-> in_msg.f[fields[k]]],
              optargs |-> {<<python_name(n), in_msg.f[n]>> : n \in opt_present}]

\* optargs.get(name)
optargs_get(optargs, name) ==
    IF \E p \in optargs : p[1] = name
    THEN (CHOOSE p \in optargs : p[1] = name)[2]
    ELSE None

\* --------------------------------------------------------------- adapters
\* Call.__init__ (and the fields its subclasses add).
NewCall(cls) ==
    [cls |-> cls, ta_id |-> None, result |-> NoneStr, reason |-> None,
     latency |-> None, notifications |-> <<>>, complete |-> <<>>]

\* Call.__call__: the adapter afterwards and the error raised.
Call_call(c, id, event, args, optargs) ==
    IF c.ta_id = None \/ c.ta_id # id
    THEN [call |-> c, exc |-> Error("AssertionError", "ta_id")]
    ELSE [call |-> [c EXCEPT !.result = event,
                             !.reason = IF event = FAIL
                                        THEN optargs_get(optargs, "fail_reason")
                                        ELSE @],
          exc |-> NoError]

\* LatencyCall.__call__(self, ta_id, event, *args): takes no keyword
\* arguments.  Elapsed time is abstracted to 0.
LatencyCall_call(c, id, event, args, optargs) ==
    IF optargs # {}
    THEN [call |-> c, exc |-> Error("TypeError", "unexpected keyword argument")]
    ELSE Call_call(IF event = COMPLETE THEN [c EXCEPT !.latency = 0] ELSE c,
                   id, event, args, optargs)

\* A NotifyCall that puts the newest notification first.
NotifyCall_call_newest_first(c, id, event, args, optargs) ==
    Call_call(IF event = NOTIFY
              THEN [c EXCEPT !.notifications =
                        <<[args |-> args, optargs |-> optargs]>> \o @]
              ELSE c,
              id, event, args, optargs)

\* NotifyCall.__call__
NotifyCall_call(c, id, event, args, optargs) ==
    Call_call(IF event = NOTIFY
              THEN [c EXCEPT !.notifications =
                        Append(@, [args |-> args, optargs |-> optargs])]
              ELSE c,
              id, event, args, optargs)

\* CompleteCall.__call__(self, ta_id, event, *args): takes no keyword
\* arguments.
CompleteCall_call(c, id, event, args, optargs) ==
    IF optargs # {}
    THEN [call |-> c, exc |-> Error("TypeError", "unexpected keyword argument")]
    ELSE Call_call(IF event = COMPLETE THEN [c EXCEPT !.complete = args] ELSE c,
                   id, event, args, optargs)

\* The __call__ of the adapter's class.
adapter_call(c, id, event, args, optargs) ==
    CASE c.cls = "LatencyCall" -> LatencyCall_call(c, id, event, args, optargs)
      [] c.cls = "NotifyCall" -> NotifyCall_call(c, id, event, args, optargs)
      [] c.cls = "CompleteCall" -> CompleteCall_call(c, id, event, args, optargs)
      [] OTHER -> Call_call(c, id, event, args, optargs)

\* TransactionError.__init__: the exception that results from constructing
\* the error.  Without a reason the message is built with a % that has no
\* conversion, which raises TypeError.
TransactionError(reason) ==
    IF reason # None
    THEN Error("TransactionError", "reason")
    ELSE Error("TypeError", "not all arguments converted")

\* What get() of each class returns after Call.get returned.
get_result(c) ==
    [cls |-> c.cls,
     latency |-> IF c.cls = "LatencyCall" THEN c.latency ELSE None,
     notifications |-> IF c.cls = "NotifyCall" THEN c.notifications ELSE <<>>,
     complete |-> IF c.cls = "CompleteCall" THEN c.complete ELSE <<>>]

\* A criteria that is content with any event.
call_done_any_event(c) == c.result # NoneStr

\* The criteria Call.get waits for.
call_done(c) == c.result = COMPLETE \/ c.result = FAIL

\* ------------------------------------------------------------------ Client
\* A handshake callback that takes whatever version the server selected.
initial_hello_cb_any_version(event, args, optargs) ==
    IF event = FAIL
    THEN [proto_version |-> proto_version, ready |-> FALSE,
          exc |-> Error("ProtocolError", "establishment failed")]
    ELSE IF event = COMPLETE
    THEN [proto_version |-> args[1], ready |-> ready_cb, exc |-> NoError]
    ELSE [proto_version |-> proto_version, ready |-> FALSE, exc |-> NoError]

\* Client.initial_hello_cb: the negotiated version afterwards, whether
\* ready_cb was called, and the error raised.
initial_hello_cb(event, args, optargs) ==
    IF event = FAIL
    THEN [proto_version |-> proto_version, ready |-> FALSE,
          exc |-> Error("ProtocolError", "establishment failed")]
    ELSE IF event = COMPLETE
    THEN IF VERSION # args[1]
         THEN [proto_version |-> proto_version, ready |-> FALSE,
               exc |-> Error("ProtocolError", "unsupported version")]
         ELSE [proto_version |-> args[1], ready |-> ready_cb, exc |-> NoError]
    ELSE [proto_version |-> proto_version, ready |-> FALSE, exc |-> NoError]

\* An update that always asks for SENDABLE.
update_always_sendable(queue) == {SO_RECEIVABLE, SO_SENDABLE}

\* A next_ta_id that forgets to advance the counter.
next_ta_id_stuck(counter) == [ta_id |-> counter, next |-> counter]

\* Client.next_ta_id: the id handed out and the counter afterwards.
next_ta_id(counter) == [ta_id |-> counter, next |-> counter + 1]

\* Client.update: the readiness interest given to the transport.
update(queue) ==
    IF Len(queue) > 0 THEN {SO_RECEIVABLE, SO_SENDABLE} ELSE {SO_RECEIVABLE}

\* What conn_sock.send can do with a message.
SendOutcomes == {"ok", "EAGAIN", "error"}

\* A try_send that puts a would-blocked message back at the end of the queue.
try_send_requeue_last(queue, outcome) ==
    IF Len(queue) > 0
    THEN IF outcome = "ok"
         THEN [queue |-> Tail(queue), sent |-> <<Head(queue)>>, ret |-> TRUE,
               exc |-> NoError]
         ELSE IF outcome = "EAGAIN"
         THEN [queue |-> Tail(queue) \o <<Head(queue)>>, sent |-> <<>>,
               ret |-> FALSE, exc |-> NoError]
         ELSE [queue |-> Tail(queue), sent |-> <<>>, ret |-> FALSE,
               exc |-> Error("TransportError", "send")]
    ELSE [queue |-> queue, sent |-> <<>>, ret |-> FALSE, exc |-> NoError]

\* A try_send that takes the newest message of the queue.
try_send_newest_first(queue, outcome) ==
    IF Len(queue) > 0
    THEN IF outcome = "ok"
         THEN [queue |-> SubSeq(queue, 1, Len(queue) - 1),
               sent |-> <<queue[Len(queue)]>>, ret |-> TRUE, exc |-> NoError]
         ELSE IF outcome = "EAGAIN"
         THEN [queue |-> queue, sent |-> <<>>, ret |-> FALSE, exc |-> NoError]
         ELSE [queue |-> SubSeq(queue, 1, Len(queue) - 1), sent |-> <<>>,
               ret |-> FALSE, exc |-> Error("TransportError", "send")]
    ELSE [queue |-> queue, sent |-> <<>>, ret |-> FALSE, exc |-> NoError]

\* A try_send that lets a would-block out as a transport error.
try_send_raise_eagain(queue, outcome) ==
    IF Len(queue) > 0
    THEN IF outcome = "ok"
         THEN [queue |-> Tail(queue), sent |-> <<Head(queue)>>, ret |-> TRUE,
               exc |-> NoError]
         ELSE IF outcome = "EAGAIN"
         THEN [queue |-> <<Head(queue)>> \o Tail(queue), sent |-> <<>>,
               ret |-> FALSE, exc |-> Error("TransportError", "send")]
         ELSE [queue |-> Tail(queue), sent |-> <<>>, ret |-> FALSE,
               exc |-> Error("TransportError", "send")]
    ELSE [queue |-> queue, sent |-> <<>>, ret |-> FALSE, exc |-> NoError]

\* Client.try_send on the given queue when the transport answers `outcome`:
\* the queue afterwards, the messages the transport took, the value returned
\* and the error raised.
try_send(queue, outcome) ==
    IF Len(queue) > 0
    THEN IF outcome = "ok"
         THEN [queue |-> Tail(queue), sent |-> <<Head(queue)>>, ret |-> TRUE,
               exc |-> NoError]
         ELSE IF outcome = "EAGAIN"
         THEN [queue |-> <<Head(queue)>> \o Tail(queue), sent |-> <<>>,
               ret |-> FALSE, exc |-> NoError]
         ELSE [queue |-> Tail(queue), sent |-> <<>>, ret |-> FALSE,
               exc |-> Error("TransportError", "send")]
    ELSE [queue |-> queue, sent |-> <<>>, ret |-> FALSE, exc |-> NoError]

\* The handler call of consume_message, self.cb(self.ta_id, event, *args,
\* **optargs), for each kind of handler: the handshake callback, an adapter,
\* or a callback of the application (which only takes note of the event).
\* Gives the negotiated version and the adapters afterwards, whether
\* ready_cb was called, and the error the handler raised.
invoke_cb(key, t, event, args, optargs) ==
    IF t.cb = "initial_hello_cb"
    THEN LET h == initial_hello_cb(event, args, optargs)
         IN  [proto_version |-> h.proto_version, calls |-> calls,
              ready |-> h.ready, exc |-> h.exc]
    ELSE IF t.cb = "call"
    THEN LET h == adapter_call(calls[key], t.ta_id, event, args, optargs)
         IN  [proto_version |-> proto_version,
              calls |-> [calls EXCEPT ![key] = h.call],
              ready |-> FALSE, exc |-> h.exc]
    ELSE [proto_version |-> proto_version, calls |-> calls, ready |-> FALSE,
          exc |-> NoError]

\* What conn_sock.receive can do: would-block, fail, or hand over a message.
\* A message is empty (the peer closed), not JSON, or a decoded object.
WrongCmd(cmd) == IF cmd = "ping" THEN "hello" ELSE "ping"

\* The field contents the server may give a message of this kind: the
\* mandatory fields alone, with the fail reason, with an unknown field, and
\* with a mandatory field left out.
Shapes(cmd, msg_type) ==
    LET mand == Range(fields_of(cmd, msg_type))
        exact == {[n \in FieldNames |->
                      IF n \notin mand THEN None
                      ELSE IF n = "proto-version" THEN pv ELSE sid] :
                  pv \in {VERSION, VERSION + 1}, sid \in {1, 2}}
    IN  UNION {{b, [b EXCEPT !["fail-reason"] = 1], [b EXCEPT !["bogus"] = 1]}
               \cup {[b EXCEPT ![m] = None] : m \in mand} : b \in exact}

\* A message with the mandatory fields of its kind alone.
Plain(cmd, msg_type) ==
    [n \in FieldNames |->
        IF n \notin Range(fields_of(cmd, msg_type)) THEN None
        ELSE IF n = "proto-version" THEN VERSION ELSE 1]

\* The messages the server may send under a transaction id.  Under the id of
\* a registered transaction: every kind with every field content for the
\* transaction's command, and a message for another command.  Under any
\* other id: a message.  (A message is turned down for its id or its command
\* before its kind is looked at.)
MsgsFor(id) ==
    IF id \in DOMAIN transactions
    THEN LET cmd == transactions[id].ta_type
         IN  {[ta_id |-> id, ta_cmd |-> cmd, msg_type |-> mt, f |-> f] :
                 <<mt, f>> \in UNION {{mt} \X Shapes(cmd, mt) : mt \in MsgTypes}}
             \cup {[ta_id |-> id, ta_cmd |-> WrongCmd(cmd), msg_type |-> COMPLETE,
                    f |-> Plain(WrongCmd(cmd), COMPLETE)]}
    ELSE {[ta_id |-> id, ta_cmd |-> "ping", msg_type |-> COMPLETE,
           f |-> Plain("ping", COMPLETE)]}

\* Messages bear an id that was issued, one that was not, or none at all.
InMsgs == UNION {MsgsFor(id) : id \in {None} \cup (0..ta_id)}

NoMsg == [ta_id |-> None, ta_cmd |-> NoneStr, msg_type |-> NoneStr,
          f |-> [n \in FieldNames |-> None]]

Inputs ==
    {[kind |-> k, msg |-> NoMsg] : k \in {"EAGAIN", "error", "empty", "garbage"}}
    \cup {[kind |-> "msg", msg |-> m] : m \in InMsgs}

\* conn_sock.receive was not called.
NoInput == [kind |-> "none", msg |-> NoMsg]

\* The ta-id of the message try_receive decoded in the last step.
got == in_wire_msg.msg.ta_id

\* Client.try_receive when the transport answers `input`: the registry, the
\* negotiated version and the adapters afterwards, the handler call made (if
\* any), the value returned and the error raised.
try_receive(input) ==
    LET same == [transactions |-> transactions, proto_version |-> proto_version,
                 calls |-> calls, ready |-> FALSE, called |-> <<>>,
                 terminated |-> {}, ret |-> FALSE, exc |-> NoError]
    IN  IF input.kind = "EAGAIN" THEN same
        ELSE IF input.kind = "error"
        THEN [same EXCEPT !.exc = Error("TransportError", "receive")]
        ELSE IF input.kind = "empty"
        THEN [same EXCEPT !.exc = Error("ProtocolError", "server closed connection")]
        ELSE IF input.kind = "garbage"
        THEN [same EXCEPT !.exc = Error("ProtocolError", "error decoding JSON")]
        ELSE IF input.msg.ta_id = None
        THEN [same EXCEPT !.exc = Error("ProtocolError", "missing field")]
        ELSE IF input.msg.ta_id \notin DOMAIN transactions
        THEN [same EXCEPT !.exc = Error("ProtocolError", "unknown transaction")]
        ELSE
        LET key == input.msg.ta_id
            t == transactions[key]
            r == consume_message(t, input.msg)
            t2 == [t EXCEPT !.state = r.state]
            kept == [transactions EXCEPT ![key] = t2]
            term == IF r.state = TERMINATED THEN {key} ELSE {}
        IN  IF r.exc # NoError
            THEN [same EXCEPT !.transactions = kept, !.terminated = term,
                              !.exc = r.exc]
            ELSE
            LET h == invoke_cb(key, t2, r.event, r.args, r.optargs)
                did == <<[ta_id |-> t2.ta_id, key |-> key, event |-> r.event]>>
            IN  IF h.exc # NoError
                THEN [transactions |-> kept, proto_version |-> h.proto_version,
                      calls |-> h.calls, ready |-> h.ready, called |-> did,
                      terminated |-> term, ret |-> FALSE, exc |-> h.exc]
                ELSE [transactions |->
                          IF t2.state = TERMINATED
                          THEN [k \in DOMAIN kept \ {key} |-> kept[k]]
                          ELSE kept,
                      proto_version |-> h.proto_version, calls |-> h.calls,
                      ready |-> h.ready, called |-> did, terminated |-> term,
                      ret |-> TRUE, exc |-> NoError]

\* An async_request that registers the transaction only once its request
\* went out.
async_request_register_when_sent(ta_type, response_cb, outcome) ==
    LET n == next_ta_id(ta_id)
        transaction == Transaction(ta_type, n.ta_id, response_cb)
        request_msg == produce_request(ta_type, n.ta_id)
        s == try_send(Append(out_wire_msgs, request_msg), outcome)
    IN  [ret |-> n.ta_id, ta_id |-> n.next, out_wire_msgs |-> s.queue,
         transactions |-> IF s.queue = <<>>
                          THEN (n.ta_id :> transaction) @@ transactions
                          ELSE transactions,
         request |-> request_msg, sent |-> s.sent, exc |-> s.exc]

\* Client.async_request when the transport answers the send attempt with
\* `outcome`: the id returned, the counter, the queue and the registry
\* afterwards, the request produced, what the transport took and the error
\* raised.
async_request(ta_type, response_cb, outcome) ==
    LET n == next_ta_id(ta_id)
        transaction == Transaction(ta_type, n.ta_id, response_cb)
        request_msg == produce_request(ta_type, n.ta_id)
        s == try_send(Append(out_wire_msgs, request_msg), outcome)
    IN  [ret |-> n.ta_id, ta_id |-> n.next, out_wire_msgs |-> s.queue,
         transactions |-> (n.ta_id :> transaction) @@ transactions,
         request |-> request_msg, sent |-> s.sent, exc |-> s.exc]

\* The exceptions derived from proto.Error, which Client.__init__ catches.
IsError(e) == e.exc \in {"ProtocolError", "TransportError", "TransactionError"}

\* The adapters something still refers to: the one get() waits on and those
\* that are the handler of a transaction in the registry.
referenced(cs, tas, w) ==
    [k \in {j \in DOMAIN cs : j = w \/ (j \in DOMAIN tas /\ tas[j].cb = "call")}
        |-> cs[k]]

\* The adapters still referenced while handlers are running nested calls:
\* also those the interrupted get() calls wait on.
held(cs, tas, w) ==
    [k \in DOMAIN referenced(cs, tas, w)
           \cup {j \in DOMAIN cs : \E i \in 1..Len(frames) : frames[i].waiting = j}
        |-> cs[k]]

\* The transaction whose handler was handed a terminal event by the call.
terminal_keys(did) ==
    IF did # <<>> /\ did[1].event \in {COMPLETE, FAIL} THEN {did[1].key} ELSE {}

\* ------------------------------------------------------------------- Init
\* Client.__init__ up to the call of initial_hello.
Init ==
    /\ ready_cb \in BOOLEAN
    /\ ta_id = 0
    /\ out_wire_msgs = <<>>
    /\ transactions = EmptyDict
    /\ proto_version = None
    /\ condition = update(<<>>)
    /\ closed = FALSE
    /\ calls = EmptyDict
    /\ waiting = None
    /\ pc = "new"
    /\ round = NoRound
    /\ raised = NoError
    /\ returned = NoReturn
    /\ called = <<>>
    /\ issued = <<>>
    /\ sent = <<>>
    /\ terminated = {}
    /\ ready_calls = 0
    /\ send_failed = FALSE
    /\ in_wire_msg = NoInput
    /\ send_result = "none"
    /\ notified = <<>>
    /\ finished = {}
    /\ frames = <<>>
    /\ budget = MaxIn

\* ---------------------------------------------------------------- actions
\* The ids of a sequence of wire messages.
ids_of(msgs) == [k \in 1..Len(msgs) |-> msgs[k].ta_id]

\* The effect of async_request on the connection and the histories.
DoAsyncRequest(a) ==
    /\ ta_id' = a.ta_id
    /\ out_wire_msgs' = a.out_wire_msgs
    /\ transactions' = a.transactions
    /\ condition' = update(a.out_wire_msgs)
    /\ issued' = Append(issued, a.ret)
    /\ sent' = sent \o ids_of(a.sent)
    /\ send_failed' = (send_failed \/ a.exc # NoError)
    /\ raised' = a.exc
    /\ returned' = NoReturn
    /\ called' = <<>>
    /\ in_wire_msg' = NoInput

\* Where the application is after an operation that ended with `e`: a
\* transport error is fatal to the connection, which the application does
\* not use afterwards.
after(e) == IF e.exc = "TransportError" THEN "broken" ELSE "app"

\* Client.__init__ from initial_hello on: issues hello with initial_hello_cb
\* and, without a readiness callback, goes on to wait for the version.  An
\* Error closes the connection and is raised again.
InitialHello(outcome) ==
    /\ pc = "new"
    /\ LET a == async_request("hello", "initial_hello_cb", outcome)
       IN  /\ DoAsyncRequest(a)
           /\ send_result' = outcome
           /\ closed' = (a.exc # NoError /\ IsError(a.exc))
           /\ pc' = IF a.exc # NoError THEN "failed"
                    ELSE IF ready_cb THEN "app" ELSE "ctor"
    /\ UNCHANGED <<ready_cb, proto_version, calls, waiting, round, terminated,
                   ready_calls, notified, finished, frames, budget>>

\* An operation issued with a callback: issue_request -> async_request.
AsyncRequest(cmd, outcome) ==
    /\ pc = "app" /\ round = NoRound
    /\ ta_id < MaxTa
    /\ LET a == async_request(cmd, "response_cb", outcome)
       IN  /\ DoAsyncRequest(a)
           /\ send_result' = outcome
           /\ pc' = after(a.exc)
    /\ UNCHANGED <<ready_cb, proto_version, closed, calls, waiting, round,
                   terminated, ready_calls, notified, finished, frames, budget>>

\* A sync_request that goes on to get() without storing the id in the
\* adapter.
SyncRequest_id_unset(cmd, outcome) ==
    /\ pc = "app" /\ round = NoRound
    /\ ta_id < MaxTa
    /\ LET a == async_request(cmd, "call", outcome)
           c == NewCall(call_cls_of(cmd))
       IN  /\ DoAsyncRequest(a)
           /\ send_result' = outcome
           /\ notified' = <<>>
           /\ calls' = (a.ret :> c) @@ calls
           /\ IF a.exc # NoError
              THEN pc' = after(a.exc) /\ UNCHANGED waiting
              ELSE waiting' = a.ret /\ pc' = "get"
    /\ UNCHANGED <<ready_cb, proto_version, closed, round, terminated,
                   ready_calls, finished, frames, budget>>

\* An operation issued without a callback: issue_request -> sync_request, up
\* to the call of call.get().  The id is stored in the adapter only after
\* async_request returned.
SyncRequest(cmd, outcome) ==
    /\ pc = "app" /\ round = NoRound
    /\ ta_id < MaxTa
    /\ LET a == async_request(cmd, "call", outcome)
           c == NewCall(call_cls_of(cmd))
       IN  /\ DoAsyncRequest(a)
           /\ send_result' = outcome
           /\ notified' = <<>>
           /\ IF a.exc # NoError
              THEN /\ calls' = (a.ret :> c) @@ calls
                   /\ pc' = after(a.exc)
                   /\ UNCHANGED waiting
              ELSE /\ calls' = (a.ret :> [c EXCEPT !.ta_id = a.ret]) @@ calls
                   /\ waiting' = a.ret
                   /\ pc' = "get"
    /\ UNCHANGED <<ready_cb, proto_version, closed, round, terminated,
                   ready_calls, finished, frames, budget>>

\* The criteria of the wait the thread is in.
criteria ==
    IF pc = "ctor" THEN proto_version # None
    ELSE IF pc = "get" THEN call_done(calls[waiting])
    ELSE FALSE

\* process() is entered: by the application, or by wait() while its criteria
\* does not hold.
ProcessBegin ==
    /\ round = NoRound
    /\ \/ pc = "app"
       \/ pc \in {"ctor", "get"} /\ ~criteria
    /\ round' = [loop |-> "send", i |-> 0]
    /\ raised' = NoError
    /\ returned' = NoReturn
    /\ called' = <<>>
    /\ in_wire_msg' = NoInput
    /\ send_result' = "none"
    /\ UNCHANGED <<conn_vars, hist_vars, ready_cb, calls, waiting, pc, notified,
                   frames, budget>>

\* An exception leaves process(): out of wait() in the constructor (which
\* closes the connection on an Error), out of get(), or to the application,
\* through every handler that is running a nested call.
Unwind(e) ==
    /\ round' = NoRound
    /\ raised' = e
    /\ closed' = (closed \/ (pc = "ctor" /\ IsError(e)))
    /\ pc' = IF pc = "ctor" THEN "failed" ELSE after(e)
    /\ waiting' = None
    /\ notified' = <<>>
    /\ frames' = <<>>

\* A loop that goes on for as long as the attempts succeed.
loop_next_unbounded(i, ret) == IF ret THEN i + 1 ELSE None

\* The loop index after an attempt that returned `ret`: the next iteration,
\* or None at the end of the loop.
loop_next(i, ret) == IF ret /\ i + 1 < MAX_MSGS_PER_ROUND THEN i + 1 ELSE None

\* One iteration of the first loop of process(): a try_send.
SendStep(outcome) ==
    /\ round.loop = "send"
    /\ LET s == try_send(out_wire_msgs, outcome)
           n == loop_next(round.i, s.ret)
       IN  /\ out_wire_msgs' = s.queue
           /\ condition' = update(s.queue)
           /\ sent' = sent \o ids_of(s.sent)
           /\ send_failed' = (send_failed \/ s.exc # NoError)
           /\ IF s.exc # NoError
              THEN /\ Unwind(s.exc)
                   /\ calls' = referenced(calls, transactions, None)
              ELSE /\ round' = IF n = None THEN [loop |-> "recv", i |-> 0]
                                ELSE [round EXCEPT !.i = n]
                   /\ raised' = NoError
                   /\ UNCHANGED <<closed, pc, waiting, calls, notified, frames>>
    /\ returned' = NoReturn
    /\ called' = <<>>
    /\ in_wire_msg' = NoInput
    /\ send_result' = IF Len(out_wire_msgs) > 0 THEN outcome ELSE "none"
    /\ UNCHANGED <<ready_cb, ta_id, transactions, proto_version, issued,
                   terminated, ready_calls, finished, budget>>

\* One iteration of the second loop of process(): a try_receive.
RecvStep(input) ==
    /\ round.loop = "recv"
    /\ input.kind \in {"EAGAIN", "error"} \/ budget > 0
    /\ LET r == try_receive(input)
           n == loop_next(round.i, r.ret)
       IN  /\ transactions' = r.transactions
           /\ proto_version' = r.proto_version
           /\ condition' = update(out_wire_msgs)
           /\ ready_calls' = ready_calls + (IF r.ready THEN 1 ELSE 0)
           /\ terminated' = terminated \cup r.terminated
           /\ finished' = finished \cup terminal_keys(r.called)
           /\ called' = r.called
           /\ in_wire_msg' = input
           /\ send_result' = "none"
           /\ budget' = budget - (IF input.kind \in {"EAGAIN", "error"} THEN 0 ELSE 1)
           /\ IF r.exc # NoError
              THEN /\ Unwind(r.exc)
                   /\ calls' = referenced(r.calls, r.transactions, None)
              ELSE /\ round' = IF n = None THEN NoRound ELSE [round EXCEPT !.i = n]
                   /\ raised' = NoError
                   /\ calls' = held(r.calls, r.transactions, waiting)
                   /\ notified' =
                         IF /\ r.called # <<>> /\ r.called[1].event = NOTIFY
                            /\ input.msg.ta_id = waiting
                         THEN Append(notified, input.msg.f["service-id"])
                         ELSE notified
                   /\ UNCHANGED <<closed, pc, waiting, frames>>
    /\ returned' = NoReturn
    /\ UNCHANGED <<ready_cb, ta_id, out_wire_msgs, issued, sent, send_failed>>

\* wait() in the constructor ends: Client.__init__ returns the connection.
Connected ==
    /\ pc = "ctor" /\ round = NoRound /\ criteria
    /\ pc' = "app"
    /\ raised' = NoError
    /\ returned' = NoReturn
    /\ called' = <<>>
    /\ in_wire_msg' = NoInput
    /\ send_result' = "none"
    /\ UNCHANGED <<conn_vars, hist_vars, ready_cb, calls, waiting, round,
                   notified, frames, budget>>

\* wait() in Call.get ends: get() raises TransactionError on FAIL and
\* otherwise returns what the adapter's class returns.
GetReturn ==
    /\ pc = "get" /\ round = NoRound /\ criteria
    /\ frames = <<>>
    /\ LET c == calls[waiting]
       IN  IF c.result = FAIL
           THEN raised' = TransactionError(c.reason) /\ returned' = NoReturn
           ELSE raised' = NoError /\ returned' = get_result(c)
    /\ pc' = "app"
    /\ waiting' = None
    /\ calls' = referenced(calls, transactions, None)
    /\ called' = <<>>
    /\ in_wire_msg' = NoInput
    /\ send_result' = "none"
    /\ notified' = <<>>
    /\ UNCHANGED <<conn_vars, hist_vars, ready_cb, round, frames, budget>>

Next ==
    \/ \E o \in SendOutcomes : InitialHello(o)
    \/ \E cmd \in AsyncCmds, o \in SendOutcomes : AsyncRequest(cmd, o)
    \/ \E cmd \in SyncCmds, o \in SendOutcomes : SyncRequest(cmd, o)
    \/ ProcessBegin
    \/ \E o \in SendOutcomes : SendStep(o)
    \/ \E input \in Inputs : RecvStep(input)
    \/ Connected
    \/ GetReturn

Spec == Init /\ [][Next]_vars

\* ------------------------------------------------------------- properties
\* The state of the transaction issued under id k: the state of its entry in
\* the registry, and TERMINATED once the entry is gone.
StateOf(tas, k) == IF k \in DOMAIN tas THEN tas[k].state ELSE TERMINATED

\* A message was taken from the transport in this step.
Received == budget' = budget - 1

\* The legal (event, state, interaction pattern) combinations and the state
\* each leads to.
LegalStep(event, state, ia, next) ==
    \/ event = ACCEPT /\ state = REQUESTING /\ ia = MULTI_RESPONSE /\ next = ACCEPTED
    \/ event = NOTIFY /\ state = ACCEPTED /\ ia = MULTI_RESPONSE /\ next = ACCEPTED
    \/ event = COMPLETE /\ state = REQUESTING /\ ia = SINGLE_RESPONSE
       /\ next = TERMINATED
    \/ event = COMPLETE /\ state = ACCEPTED /\ ia = MULTI_RESPONSE /\ next = TERMINATED
    \/ event = FAIL /\ state \in {REQUESTING, ACCEPTED} /\ next = TERMINATED

\* C1: a transaction driven through try_receive only moves REQUESTING ->
\* TERMINATED (single-response, on COMPLETE or FAIL) or REQUESTING -> ACCEPTED
\* -> ... -> TERMINATED (multi-response; FAIL also from REQUESTING), and a
\* message in any other (kind, state, pattern) combination is rejected with a
\* ProtocolError: every message received for a registered transaction is
\* either handed to the handler on a legal combination, or rejected with a
\* ProtocolError without reaching the handler.
C1_StateMachine ==
    [][(Received /\ got' \in DOMAIN transactions) =>
          LET t == transactions[got']
          IN  \/ /\ called' = <<>>
                 /\ raised'.exc = "ProtocolError"
              \/ /\ called' # <<>>
                 /\ LegalStep(called'[1].event, t.state, ia_type(t.ta_type),
                              StateOf(transactions', got'))]_vars

\* C2: between the calls of the public operations, also after one that
\* raised, the registry holds exactly the issued transactions that are not
\* TERMINATED.
C2_RegistryExact ==
    (pc = "app" /\ round = NoRound) =>
        /\ \A k \in DOMAIN transactions : transactions[k].state # TERMINATED
        /\ \A k \in 0..(ta_id - 1) :
               k \in DOMAIN transactions <=> k \notin terminated

\* C3: a message bearing the id of a transaction that reached TERMINATED, or
\* an id that was never issued, is rejected with the unknown-transaction
\* ProtocolError and no handler is called.
C3_TerminatedIsUnknown ==
    [][(Received /\ got' # None /\ (got' \in terminated \/ got' >= ta_id)) =>
          /\ raised' = Error("ProtocolError", "unknown transaction")
          /\ called' = <<>>]_vars

\* C4: as long as the transport only accepts or would-blocks, the messages
\* the transport took, followed by those still queued, are the requests in
\* the order they were issued: none sent twice, skipped or overtaken.
C4_SendOrder ==
    ~send_failed => sent \o ids_of(out_wire_msgs) = issued

\* C4 witness: in a process() round the first request went out and the send
\* of the second would-blocked, leaving it queued.
C4_Witness ==
    /\ round.loop = "recv"
    /\ Len(sent) = 1
    /\ Len(out_wire_msgs) = 1
    /\ Len(issued) = 2

\* C5: the ids returned by successive issuances are 0, 1, 2, ...: each the
\* previous plus one, so no two transactions share an id.
C5_IdsIncrease ==
    /\ \A k \in 1..Len(issued) : issued[k] = k - 1
    /\ \A k \in DOMAIN transactions : transactions[k].ta_id = k /\ k < ta_id

\* C5 witness: a second id was handed out after the first transaction had
\* terminated and left the registry.
C5_Witness ==
    /\ Len(issued) = 2
    /\ 0 \in terminated
    /\ DOMAIN transactions = {1}

\* The handshake was refused: hello ended with FAIL, or with COMPLETE
\* carrying another version than the required one.
HandshakeRefused ==
    raised \in {Error("ProtocolError", "establishment failed"),
                Error("ProtocolError", "unsupported version")}

\* C6: when the handshake is refused, a ProtocolError is raised and the
\* transport handle is closed, in the synchronous and in the asynchronous
\* handshake.
C6_RefusedHandshakeCloses == HandshakeRefused => closed

\* C7: when the transaction of a synchronous call receives a well-formed
\* FAIL, the handler takes it without error and get() raises a
\* TransactionError, whether or not the FAIL carries a reason.
C7_FailRaisesTransactionError ==
    [][/\ (pc = "get" /\ called' # <<>> /\ called'[1].event = FAIL
           /\ called'[1].key = waiting) => raised' = NoError
       /\ (pc = "get" /\ round = NoRound /\ pc' = "app"
           /\ calls[waiting].result = FAIL) => raised'.exc = "TransactionError"]_vars

\* ------------------------------------------- one process() round in depth
\* The connection once the handshake is done, a subscription (id 1) was
\* accepted and DeepQueue further requests were issued while the transport
\* would-blocked, at the moment the application enters process().
InitRound ==
    /\ ready_cb = FALSE
    /\ ta_id = DeepQueue + 2
    /\ out_wire_msgs = [k \in 1..DeepQueue |-> produce_request("subscribe", k + 1)]
    /\ transactions =
          [k \in 1..(DeepQueue + 1) |->
              [Transaction("subscribe", k, "response_cb") EXCEPT
                  !.state = IF k = 1 THEN ACCEPTED ELSE REQUESTING]]
    /\ proto_version = VERSION
    /\ condition = update(out_wire_msgs)
    /\ closed = FALSE
    /\ calls = EmptyDict
    /\ waiting = None
    /\ pc = "app"
    /\ round = [loop |-> "send", i |-> 0]
    /\ raised = NoError
    /\ returned = NoReturn
    /\ called = <<>>
    /\ issued = [k \in 1..(DeepQueue + 2) |-> k - 1]
    /\ sent = <<0, 1>>
    /\ terminated = {0}
    /\ ready_calls = 0
    /\ send_failed = FALSE
    /\ in_wire_msg = NoInput
    /\ send_result = "none"
    /\ notified = <<>>
    /\ finished = {0}
    /\ frames = <<>>
    /\ budget = DeepIn

\* In the round the transport accepts or would-blocks, and the server has
\* notifications of the accepted subscription pending.
RoundInputs ==
    {[kind |-> "EAGAIN", msg |-> NoMsg],
     [kind |-> "msg", msg |-> [ta_id |-> 1, ta_cmd |-> "subscribe",
                               msg_type |-> NOTIFY, f |-> Plain("subscribe", NOTIFY)]]}

NextRound ==
    \/ \E o \in {"ok", "EAGAIN"} : SendStep(o)
    \/ \E input \in RoundInputs : RecvStep(input)

SpecRound == InitRound /\ [][NextRound]_vars

\* C8: one process() round makes at most MAX_MSGS_PER_ROUND send attempts and
\* then at most as many receive attempts, however deep the queue and the
\* pending input: at most that many messages are transmitted and dispatched,
\* the send loop stops at the first would-block or empty queue, the receive
\* loop at the first would-block, and nothing is sent once receiving began.
C8_RoundBound ==
    /\ [](/\ round.i < MAX_MSGS_PER_ROUND
          /\ Len(sent) - 2 <= MAX_MSGS_PER_ROUND
          /\ DeepIn - budget <= MAX_MSGS_PER_ROUND)
    /\ [][/\ (round.loop = "send" /\ Len(sent') = Len(sent)) => round'.loop # "send"
          /\ (round.loop = "recv" /\ budget' = budget) => round'.loop = "none"
          /\ round.loop = "recv" => sent' = sent /\ out_wire_msgs' = out_wire_msgs
          /\ round.loop = "none" => UNCHANGED <<sent, budget>>]_vars

\* C8 witness: the round is over after MAX_MSGS_PER_ROUND messages went out
\* and as many came in, with more of both still pending.
C8_Witness ==
    /\ round = NoRound
    /\ Len(sent) = 2 + MAX_MSGS_PER_ROUND
    /\ Len(out_wire_msgs) = DeepQueue - MAX_MSGS_PER_ROUND
    /\ budget = DeepIn - MAX_MSGS_PER_ROUND
    /\ budget > 0

\* ------------------------------------------------------------ frame (C10)
\* Everything but the transaction the message is for stays as it was: the
\* other transactions and their adapters, the queue and the id counter; and
\* the handler is called with the id it was registered under.
Frame ==
    /\ \A j \in (DOMAIN transactions \cup DOMAIN transactions') \ {got'} :
          /\ j \in DOMAIN transactions /\ j \in DOMAIN transactions'
          /\ transactions'[j] = transactions[j]
    /\ \A j \in (DOMAIN calls \cap DOMAIN calls') \ {got'} : calls'[j] = calls[j]
    /\ out_wire_msgs' = out_wire_msgs
    /\ ta_id' = ta_id
    /\ called'[1].ta_id = got' /\ called'[1].key = got'

\* A message was handed to the handler of a registered transaction.
Dispatched == Received /\ called' # <<>>

TerminalReplies ==
    IF pc = "get" /\ waiting \in DOMAIN transactions
    THEN LET t == transactions[waiting]
         IN  {[kind |-> "msg",
               msg |-> [ta_id |-> waiting, ta_cmd |-> t.ta_type, msg_type |-> mt,
                        f |-> f]] :
                 <<mt, f>> \in
                     {<<mt, f>> \in {COMPLETE, FAIL} \X [FieldNames -> {None, 1, VERSION}] :
                         /\ LegalStep(mt, t.state, ia_type(t.ta_type), TERMINATED)
                         /\ \/ f = Plain(t.ta_type, mt)
                            \/ mt = FAIL /\ f = [Plain(t.ta_type, mt) EXCEPT
                                                     !["fail-reason"] = 1]}}
    ELSE {}

\* The server answers the request of the call in progress, which it has
\* received, with a terminal reply.
TerminalReply ==
    /\ pc = "get"
    /\ \E k \in 1..Len(sent) : sent[k] = waiting
    /\ \E input \in TerminalReplies : RecvStep(input)

\* What a server that keeps to the protocol sends over a transport that
\* only accepts or would-blocks: well-formed messages that are legal in the
\* state of the transaction they are for.
LegalInputs ==
    {[kind |-> "EAGAIN", msg |-> NoMsg]}
    \cup UNION {LET t == transactions[k]
                IN  {[kind |-> "msg",
                      msg |-> [ta_id |-> k, ta_cmd |-> t.ta_type, msg_type |-> mt,
                               f |-> IF r THEN [Plain(t.ta_type, mt) EXCEPT
                                                   !["fail-reason"] = 1]
                                     ELSE Plain(t.ta_type, mt)]] :
                        <<mt, r>> \in
                            {<<mt, r>> \in MsgTypes \X BOOLEAN :
                                /\ r => mt = FAIL
                                /\ LegalStep(mt, t.state, ia_type(t.ta_type),
                                             consume_event(t, mt).state)}} :
                k \in DOMAIN transactions}

NextLive ==
    \/ \E o \in {"ok", "EAGAIN"} : InitialHello(o)
    \/ \E cmd \in AsyncCmds, o \in {"ok", "EAGAIN"} : AsyncRequest(cmd, o)
    \/ \E cmd \in SyncCmds, o \in {"ok", "EAGAIN"} : SyncRequest(cmd, o)
    \/ ProcessBegin
    \/ \E o \in {"ok", "EAGAIN"} : SendStep(o)
    \/ \E input \in LegalInputs : RecvStep(input)
    \/ Connected
    \/ GetReturn

\* The thread runs (wait() goes on pumping and get() returns once its
\* criteria holds), the transport becomes writable again and again, and the
\* server eventually answers a request it has received.
LiveSpec ==
    /\ Init /\ [][NextLive]_vars
    /\ WF_vars(ProcessBegin)
    /\ WF_vars(\E o \in {"ok", "EAGAIN"} : SendStep(o))
    /\ WF_vars(\E input \in LegalInputs : RecvStep(input))
    /\ WF_vars(GetReturn)
    /\ SF_vars(SendStep("ok"))
    /\ SF_vars(TerminalReply)

\* C9: a synchronous request returns, or raises a TransactionError, only
\* after its own transaction received COMPLETE or FAIL; and when the
\* transport becomes writable and readable and the server sends a terminal
\* reply, the blocking call ends, whatever else is interleaved.  (Nothing is
\* concluded once the server has no message left to send.)
C9_SyncCall ==
    /\ [][(pc = "get" /\ pc' = "app" /\ raised'.exc \in {"none", "TransactionError"}) =>
            /\ calls[waiting].result \in {COMPLETE, FAIL}
            /\ waiting \in terminated
            /\ waiting \notin DOMAIN transactions]_vars
    /\ (pc = "get") ~> (pc # "get" \/ budget = 0)

\* C9 witness: get() has returned normally while another transaction is
\* still live and the server has messages left.
C9_Witness ==
    /\ returned # NoReturn
    /\ raised = NoError
    /\ pc = "app"
    /\ budget > 0
    /\ \E j \in DOMAIN transactions : transactions[j].state # TERMINATED

\* ------------------------------------------------- readiness interest (C11)
\* C11: after every async_request, try_send, try_receive and process(),
\* however it ended, the readiness interest registered with the transport is
\* RECEIVABLE, together with SENDABLE exactly when the outgoing queue is not
\* empty.
C11_ReadinessInterest ==
    /\ condition \subseteq {SO_RECEIVABLE, SO_SENDABLE}
    /\ SO_RECEIVABLE \in condition
    /\ SO_SENDABLE \in condition <=> Len(out_wire_msgs) > 0

\* C11 witness: a send failed with a transport error, the message it had
\* taken from the queue is gone and another request is still queued.
C11_Witness ==
    /\ raised.exc = "TransportError"
    /\ send_failed
    /\ Len(out_wire_msgs) > 0
    /\ SO_SENDABLE \in condition

\* -------------------------------------------------------- would-block (C12)
\* C12: a would-block of the transport never comes out of process(),
\* async_request or get() as an error.  On a send it leaves the outgoing
\* queue as it was before the attempt (for async_request: the queue with the
\* new request appended), and nothing is taken by the transport; on a receive
\* it leaves the queue, the registry and every transaction state unchanged.
C12_WouldBlock ==
    [][/\ send_result' = "EAGAIN" =>
             /\ raised' = NoError
             /\ sent' = sent
             /\ IF ta_id' = ta_id
                THEN out_wire_msgs' = out_wire_msgs
                ELSE out_wire_msgs' =
                        Append(out_wire_msgs,
                               produce_request(transactions'[ta_id].ta_type, ta_id))
       /\ in_wire_msg'.kind = "EAGAIN" =>
             /\ raised' = NoError
             /\ UNCHANGED <<out_wire_msgs, transactions, calls, sent>>]_vars

\* C12 witness: inside get(), with two requests queued, the send and then
\* the receive of a process() round would-blocked.
C12_Witness ==
    /\ pc = "get"
    /\ in_wire_msg.kind = "EAGAIN"
    /\ Len(out_wire_msgs) = 2
    /\ sent = <<>>
    /\ round = NoRound

\* ------------------------------------------------- negotiated version (C13)
\* C13: the negotiated version is None until the COMPLETE of the handshake
\* transaction is accepted, is then set once, to the required version, and
\* never changes again, also when hello is issued again; a readiness callback
\* is called exactly once, when the version is set, and never on a handshake
\* FAIL or on a version mismatch.
C13_VersionOnce ==
    /\ [](/\ proto_version \in {None, VERSION}
          /\ ready_calls = IF ready_cb /\ proto_version # None THEN 1 ELSE 0)
    /\ [][/\ proto_version # None => proto_version' = proto_version
          /\ proto_version' # proto_version =>
                /\ got' = 0
                /\ transactions[0].cb = "initial_hello_cb"
                /\ transactions[0].state = REQUESTING
                /\ in_wire_msg'.msg.msg_type = COMPLETE
                /\ in_wire_msg'.msg.f["proto-version"] = VERSION
                /\ called' # <<>> /\ called'[1].event = COMPLETE
                /\ raised' = NoError]_vars

\* C13 witness: after the handshake, with the readiness callback called, a
\* hello issued again has just been completed.
C13_Witness ==
    /\ proto_version = VERSION
    /\ ready_cb /\ ready_calls = 1
    /\ called # <<>> /\ called[1].key = 1 /\ called[1].event = COMPLETE
    /\ 1 \in DOMAIN calls /\ calls[1].cls = "CompleteCall"
    /\ raised = NoError

\* ------------------------------------------- notification collecting (C14)
\* The connection after the handshake, with a subscription (id 1) accepted
\* and a synchronous services() (id 2) just issued and sent: the thread is in
\* get() of its NotifyCall.
InitNotify ==
    /\ ready_cb = FALSE
    /\ ta_id = 3
    /\ out_wire_msgs = <<>>
    /\ transactions =
          (1 :> [Transaction("subscribe", 1, "response_cb") EXCEPT !.state = ACCEPTED])
          @@ (2 :> Transaction("services", 2, "call"))
    /\ proto_version = VERSION
    /\ condition = update(out_wire_msgs)
    /\ closed = FALSE
    /\ calls = (2 :> [NewCall(call_cls_of("services")) EXCEPT !.ta_id = 2])
    /\ waiting = 2
    /\ pc = "get"
    /\ round = NoRound
    /\ raised = NoError
    /\ returned = NoReturn
    /\ called = <<>>
    /\ issued = <<0, 1, 2>>
    /\ sent = <<0, 1, 2>>
    /\ terminated = {0}
    /\ ready_calls = 0
    /\ send_failed = FALSE
    /\ in_wire_msg = NoInput
    /\ send_result = "none"
    /\ notified = <<>>
    /\ finished = {0}
    /\ frames = <<>>
    /\ budget = MaxNotify

\* What the server sends: for each live transaction the kinds that are legal
\* in its state, a NOTIFY carrying one of two service ids.
NotifyInputs ==
    {[kind |-> "EAGAIN", msg |-> NoMsg]}
    \cup UNION {LET t == transactions[k]
                IN  {[kind |-> "msg",
                      msg |-> [ta_id |-> k, ta_cmd |-> t.ta_type, msg_type |-> mt,
                               f |-> [Plain(t.ta_type, mt) EXCEPT
                                         !["service-id"] =
                                             IF mt = NOTIFY THEN sid ELSE None]]] :
                        <<mt, sid>> \in
                            {<<mt, sid>> \in MsgTypes \X {1, 2} :
                                /\ mt # NOTIFY => sid = 1
                                /\ LegalStep(mt, t.state, ia_type(t.ta_type),
                                             consume_event(t, mt).state)}} :
                k \in DOMAIN transactions}

NextNotify ==
    \/ ProcessBegin
    \/ \E o \in {"ok", "EAGAIN"} : SendStep(o)
    \/ \E input \in NotifyInputs : RecvStep(input)
    \/ GetReturn

SpecNotify == InitNotify /\ [][NextNotify]_vars

\* C14: when get() of a notification-collecting call returns, it returns one
\* entry for each NOTIFY dispatched to the transaction of the call, in the
\* order of arrival, whatever was received for other transactions meanwhile.
C14_NotificationsInOrder ==
    [][(pc = "get" /\ pc' = "app" /\ calls[waiting].cls = "NotifyCall"
        /\ raised' = NoError) =>
          /\ returned'.cls = "NotifyCall"
          /\ returned'.notifications =
                [k \in 1..Len(notified) |-> [args |-> <<notified[k]>>, optargs |-> {}]]]_vars

\* C14 witness: get() returned two notifications, service 2 then service 1,
\* and a notification of the subscription arrived during the call.
C14_Witness ==
    /\ returned.cls = "NotifyCall"
    /\ Len(returned.notifications) = 2
    /\ returned.notifications[1].args = <<2>>
    /\ returned.notifications[2].args = <<1>>
    /\ budget = MaxNotify - 5
    /\ 1 \in DOMAIN transactions /\ transactions[1].state = ACCEPTED

\* ------------------------------------------------------ handler calls (C15)
\* consume_message raised one of its own protocol errors.
Rejected(e) ==
    /\ e.exc = "ProtocolError"
    /\ e.msg \in {"unexpected command", "invalid message type", "missing field",
                  "unknown fields"}

\* The message is a protocol violation for a transaction in a non-terminal
\* state: another command, a kind that is not legal in the state, a mandatory
\* field missing, or a field that is neither mandatory nor optional.
Violation(t, m) ==
    \/ m.ta_cmd # t.ta_type
    \/ ~\E next \in {ACCEPTED, TERMINATED} :
           LegalStep(m.msg_type, t.state, ia_type(t.ta_type), next)
    \/ \E n \in FieldNames :
          \/ n \in Range(fields_of(t.ta_type, m.msg_type)) /\ m.f[n] = None
          \/ /\ n \notin Range(fields_of(t.ta_type, m.msg_type))
             /\ n \notin opt_fields_of(t.ta_type, m.msg_type)
             /\ m.f[n] # None

\* C15: for each message received for a registered transaction the handler
\* is called at most once: once when consume_message accepts the message, and
\* not at all when it rejects it as a protocol violation; and for a
\* transaction in a non-terminal state the message is rejected exactly when it
\* bears another command, a kind illegal in the state, lacks a mandatory
\* field or carries an unknown one.
C15_HandlerOncePerMessage ==
    [][(Received /\ got' \in DOMAIN transactions) =>
          LET t == transactions[got']
          IN  /\ Len(called') <= 1
              /\ called' = <<>> <=> Rejected(raised')
              /\ called' # <<>> => called'[1].key = got'
              /\ t.state # TERMINATED =>
                    (Rejected(raised') <=> Violation(t, in_wire_msg'.msg))]_vars

\* C15 witness: a message with an unknown field was rejected without a call
\* of the handler.
C15_Witness ==
    /\ in_wire_msg.kind = "msg"
    /\ in_wire_msg.msg.f["bogus"] # None
    /\ raised = Error("ProtocolError", "unknown fields")
    /\ called = <<>>

\* --------------------------------------------------- rejected messages (C16)
\* C16: a message that consume_message rejects with a ProtocolError does not
\* advance the transaction: its state after the call is its state before.
C16_RejectedKeepsState ==
    [][(Received /\ got' \in DOMAIN transactions /\ Rejected(raised')) =>
          /\ got' \in DOMAIN transactions'
          /\ transactions'[got'].state = transactions[got'].state]_vars

\* ------------------------------------------------ re-entrant handlers (C17)
\* A try_receive whose message is accepted and handed to a callback of the
\* application (the response_cb of an operation, or ready_cb by way of
\* initial_hello_cb), which issues the synchronous operation `cmd` from
\* inside the call: sync_request runs async_request and then get(), whose
\* wait() pumps the connection while the try_receive is still in progress,
\* between the handler call of consume_message and the removal of a
\* terminated transaction from the registry.
RecvStepReentrant(input, cmd, outcome) ==
    /\ round.loop = "recv"
    /\ budget > 0
    /\ Len(frames) < MaxDepth
    /\ input.kind = "msg"
    /\ input.msg.ta_id \in DOMAIN transactions
    /\ LET key == input.msg.ta_id
           t == transactions[key]
           r == consume_message(t, input.msg)
           t2 == [t EXCEPT !.state = r.state]
           h == invoke_cb(key, t2, r.event, r.args, r.optargs)
           did == <<[ta_id |-> t2.ta_id, key |-> key, event |-> r.event]>>
           a == async_request(cmd, "call", outcome)
           c == NewCall(call_cls_of(cmd))
           tas == (a.ret :> a.transactions[a.ret]) @@ [transactions EXCEPT ![key] = t2]
       IN  /\ r.exc = NoError
           /\ h.exc = NoError
           /\ t.cb = "response_cb" \/ h.ready
           /\ transactions' = tas
           /\ proto_version' = h.proto_version
           /\ ready_calls' = ready_calls + (IF h.ready THEN 1 ELSE 0)
           /\ terminated' = terminated \cup (IF r.state = TERMINATED THEN {key} ELSE {})
           /\ finished' = finished \cup terminal_keys(did)
           /\ called' = did
           /\ ta_id' = a.ta_id
           /\ out_wire_msgs' = a.out_wire_msgs
           /\ condition' = update(a.out_wire_msgs)
           /\ issued' = Append(issued, a.ret)
           /\ sent' = sent \o ids_of(a.sent)
           /\ send_failed' = (send_failed \/ a.exc # NoError)
           /\ IF a.exc # NoError
              THEN /\ Unwind(a.exc)
                   /\ calls' = referenced((a.ret :> c) @@ calls, tas, None)
              ELSE /\ frames' = Append(frames, [pc |-> pc, round |-> round,
                                                waiting |-> waiting, key |-> key,
                                                notified |-> notified])
                   /\ calls' = held((a.ret :> [c EXCEPT !.ta_id = a.ret]) @@ calls,
                                    tas, waiting)
                   /\ pc' = "get"
                   /\ waiting' = a.ret
                   /\ round' = NoRound
                   /\ raised' = NoError
                   /\ notified' = <<>>
                   /\ UNCHANGED closed
    /\ in_wire_msg' = input
    /\ send_result' = outcome
    /\ returned' = NoReturn
    /\ budget' = budget - 1
    /\ UNCHANGED ready_cb

\* get() of a nested call ends.  On FAIL the exception goes up through the
\* handler.  Otherwise the handler returns and the interrupted try_receive
\* goes on: it deletes the registry entry of its transaction if the
\* transaction is TERMINATED (a KeyError if the entry is gone already),
\* returns True, and the receive loop of the interrupted round continues.
NestedGetReturn ==
    /\ pc = "get" /\ round = NoRound /\ criteria
    /\ frames # <<>>
    /\ LET c == calls[waiting]
           f == frames[Len(frames)]
           gone == f.key \notin DOMAIN transactions
           n == loop_next(f.round.i, TRUE)
       IN  IF c.result = FAIL \/ gone
           THEN /\ Unwind(IF c.result = FAIL THEN TransactionError(c.reason)
                          ELSE Error("KeyError", "transactions"))
                /\ returned' = NoReturn
                /\ calls' = referenced(calls, transactions, None)
                /\ UNCHANGED transactions
           ELSE /\ returned' = get_result(c)
                /\ raised' = NoError
                /\ transactions' =
                      IF transactions[f.key].state = TERMINATED
                      THEN [k \in DOMAIN transactions \ {f.key} |-> transactions[k]]
                      ELSE transactions
                /\ frames' = SubSeq(frames, 1, Len(frames) - 1)
                /\ pc' = f.pc
                /\ waiting' = f.waiting
                /\ notified' = f.notified
                /\ round' = IF n = None THEN NoRound ELSE [f.round EXCEPT !.i = n]
                /\ calls' = [k \in DOMAIN calls \ {waiting} |-> calls[k]]
                /\ UNCHANGED closed
    /\ called' = <<>>
    /\ in_wire_msg' = NoInput
    /\ send_result' = "none"
    /\ UNCHANGED <<ready_cb, ta_id, out_wire_msgs, proto_version, condition,
                   hist_vars, budget>>

\* The connection after the handshake with a subscription (id 1) issued and
\* sent, before the server answered it.
InitReentrant ==
    /\ ready_cb = FALSE
    /\ ta_id = 2
    /\ out_wire_msgs = <<>>
    /\ transactions = (1 :> Transaction("subscribe", 1, "response_cb"))
    /\ proto_version = VERSION
    /\ condition = update(out_wire_msgs)
    /\ closed = FALSE
    /\ calls = EmptyDict
    /\ waiting = None
    /\ pc = "app"
    /\ round = NoRound
    /\ raised = NoError
    /\ returned = NoReturn
    /\ called = <<>>
    /\ issued = <<0, 1>>
    /\ sent = <<0, 1>>
    /\ terminated = {0}
    /\ ready_calls = 0
    /\ send_failed = FALSE
    /\ in_wire_msg = NoInput
    /\ send_result = "none"
    /\ notified = <<>>
    /\ finished = {0}
    /\ frames = <<>>
    /\ budget = MaxReentrantIn

NextReentrant ==
    \/ ProcessBegin
    \/ \E o \in SendOutcomes : SendStep(o)
    \/ \E input \in Inputs : RecvStep(input)
    \/ \E input \in Inputs, cmd \in SyncCmds, o \in SendOutcomes :
          RecvStepReentrant(input, cmd, o)
    \/ NestedGetReturn

SpecReentrant == InitReentrant /\ [][NextReentrant]_vars

\* C17: the handler of a transaction is handed at most one terminal event
\* (COMPLETE or FAIL) and no event at all after it, also when a handler pumps
\* the connection from inside the call.
C17_OneTerminalEvent ==
    [][called' # <<>> => called'[1].key \notin finished]_vars

\* ------------------------------------------------- issuing a request (C18)
\* C18: issuing a request dispatches nothing: the step that hands out an id
\* registers the transaction in REQUESTING, makes at most one send, receives
\* no message and calls no handler, and leaves every other transaction as it
\* was; and whenever the adapter of a synchronous call is called, the id was
\* stored in it and is the id delivered, so its assertion never fails.
C18_IssueDoesNotDispatch ==
    /\ [](raised.exc # "AssertionError")
    /\ [][/\ ta_id' # ta_id =>
                /\ ta_id' = ta_id + 1
                /\ issued' = Append(issued, ta_id)
                /\ called' = <<>>
                /\ in_wire_msg' = NoInput
                /\ budget' = budget
                /\ Len(sent') <= Len(sent) + 1
                /\ DOMAIN transactions' = DOMAIN transactions \cup {ta_id}
                /\ transactions'[ta_id].state = REQUESTING
                /\ \A k \in DOMAIN transactions : transactions'[k] = transactions[k]
                /\ UNCHANGED <<proto_version, terminated, finished, ready_calls>>
          /\ (called' # <<>> /\ transactions[called'[1].key].cb = "call") =>
                /\ calls[called'[1].key].ta_id # None
                /\ calls[called'[1].key].ta_id = called'[1].ta_id]_vars

\* C18 witness: inside get(), the adapter of the synchronous call has just
\* been handed the COMPLETE of its transaction.
C18_Witness ==
    /\ pc = "get"
    /\ called # <<>> /\ called[1].key = waiting /\ called[1].event = COMPLETE
    /\ calls[waiting].ta_id = waiting
    /\ calls[waiting].result = COMPLETE
    /\ raised = NoError

\* --------------------------------------- registered before it is sent (C19)
\* C19: every request that is queued or was taken by the transport, and whose
\* transaction has not received a terminal message, has an entry in the
\* registry under its id, in state REQUESTING or ACCEPTED; so a message
\* bearing the id of such a request is never turned down as belonging to an
\* unknown transaction.
C19_SentIsRegistered ==
    /\ [](\A k \in (Range(sent) \cup Range(ids_of(out_wire_msgs))) \ terminated :
              /\ k \in DOMAIN transactions
              /\ transactions[k].state \in {REQUESTING, ACCEPTED}
              /\ transactions[k].ta_id = k)
    /\ [][(Received /\ got' \in (Range(sent) \cup Range(ids_of(out_wire_msgs)))
                                \ terminated) =>
             raised' # Error("ProtocolError", "unknown transaction")]_vars

\* C19 witness: with the handshake still unanswered, the reply to a second
\* request that went out was accepted.
C19_Witness ==
    /\ sent = <<0, 1>>
    /\ called # <<>> /\ called[1].key = 1 /\ called[1].event = ACCEPT
    /\ transactions[1].state = ACCEPTED
    /\ 0 \in DOMAIN transactions /\ transactions[0].state = REQUESTING

\* ------------------------------------------------------- hello first (C20)
\* C20: the handshake request, hello under id 0, is the first message the
\* transport takes on a connection: a request issued before the handshake
\* has completed goes out only after it, however the sends would-block.
C20_HelloFirst ==
    /\ [](/\ Len(issued) > 0 => issued[1] = 0
          /\ Len(sent) > 0 => sent[1] = 0
          /\ 0 \in DOMAIN transactions =>
                /\ transactions[0].ta_type = "hello"
                /\ transactions[0].cb = "initial_hello_cb")
    /\ [][\A k \in Range(sent') \ Range(sent) : k # 0 => 0 \in Range(sent)]_vars

\* C20 witness: in the asynchronous handshake the hello request and a
\* request issued after it both would-blocked, and a process() round before
\* the handshake completed sent them, hello first.
C20_Witness ==
    /\ ready_cb
    /\ proto_version = None
    /\ round = [loop |-> "send", i |-> 2]
    /\ sent = <<0, 1>>
    /\ 1 \in DOMAIN transactions /\ transactions[1].ta_type = "subscribe"

====
